---- MODULE Spec2Model ----
(***************************************************************************)
(* Model of the diagnose route (app/src/app/api/diagnose/route.ts) and of  *)
(* the zod schemas it uses (app/src/lib/diagnosticSchema.ts).              *)
(*                                                                         *)
(* Strings are modelled as sequences of tokens: a token is a piece of text *)
(* the code never looks inside (a word of prose, a brace, a fence marker,  *)
(* the body of a JSON object).  Concatenation of strings is \o.  The token  *)
(* "<fence>" stands for the three-backquote markdown fence marker.         *)
(***************************************************************************)
EXTENDS Integers, Sequences, FiniteSets, TLC

\* Number of simultaneous POST invocations.
NumRequests == 2

\* the bound of the attempt loop
MaxAttempts == 2

\* the cap on the issues reported: slice(0, 8)
MaxIssues == 8

Requests == 1..NumRequests

VARIABLES
    apiKey,     \* process.env.OPENAI_API_KEY is set
    pc,         \* pc[r]: where invocation r of POST stands
    body,       \* body[r]: what req.json() produced for r
    prompt,     \* prompt[r]: const prompt
    attempt,    \* attempt[r]: the loop variable
    rawText,    \* rawText[r]: let rawText
    lastErr,    \* lastErr[r]: let lastErr
    calls,      \* calls[r]: the inputs of the openai.responses.create calls of r, in order
    replies,    \* replies[r]: the outcomes of those calls, in order
    responses   \* responses[r]: the NextResponse objects r returned, in order

vars == <<apiKey, pc, body, prompt, attempt, rawText, lastErr, calls, replies, responses>>

-----------------------------------------------------------------------------
\* Sequence helpers (String.prototype methods on token sequences).

\* Bind(e, F) is F(e) with e evaluated once: the const and let of the code
Bind(e, F(_)) == CHOOSE y \in {F(x) : x \in {e}} : TRUE

Min(a, b) == IF a <= b THEN a ELSE b

\* s.indexOf(t), 1-based; 0 when t does not occur (JavaScript's -1)
IndexOf(s, t) ==
    IF \E i \in 1..Len(s) : s[i] = t
    THEN CHOOSE i \in 1..Len(s) : s[i] = t /\ \A j \in 1..(i-1) : s[j] # t
    ELSE 0

\* s.lastIndexOf(t), 1-based; 0 when t does not occur
LastIndexOf(s, t) ==
    IF \E i \in 1..Len(s) : s[i] = t
    THEN CHOOSE i \in 1..Len(s) : s[i] = t /\ \A j \in (i+1)..Len(s) : s[j] # t
    ELSE 0

\* whitespace tokens
IsSpace(t) == t \in {" ", "\n"}

RECURSIVE TrimStart(_)
TrimStart(str) ==
    Bind(str, LAMBDA s :
        IF s # <<>> /\ IsSpace(Head(s)) THEN TrimStart(Tail(s)) ELSE s)

RECURSIVE TrimEnd(_)
TrimEnd(str) ==
    Bind(str, LAMBDA s :
        IF s # <<>> /\ IsSpace(s[Len(s)]) THEN TrimEnd(SubSeq(s, 1, Len(s) - 1)) ELSE s)

\* String.prototype.trim
Trim(s) == TrimEnd(TrimStart(s))

\* Array.prototype.join on an array of strings
RECURSIVE Join(_, _)
Join(array, sep) ==
    Bind(array, LAMBDA parts :
        IF parts = <<>> THEN <<>>
        ELSE IF Len(parts) = 1 THEN parts[1]
        ELSE parts[1] \o <<sep>> \o Join(Tail(parts), sep))

\* t occurs in s as a contiguous piece
IsInfix(t, s) ==
    \E i \in 0..(Len(s) - Len(t)) : SubSeq(s, i + 1, i + Len(t)) = t

-----------------------------------------------------------------------------
\* stripJsonFences

\* the "i" flag of the first pattern: the json fence marker in either case
IsJsonFence(t) == t \in {"<fence>json", "<fence>JSON"}

\* first replace: a json fence marker and the whitespace after it
RECURSIVE RemoveJsonFences(_)
RemoveJsonFences(str) ==
    Bind(str, LAMBDA s :
        IF s = <<>> THEN <<>>
        ELSE IF IsJsonFence(Head(s)) THEN RemoveJsonFences(TrimStart(Tail(s)))
        ELSE <<Head(s)>> \o RemoveJsonFences(Tail(s)))

\* second replace: every remaining fence marker
RECURSIVE RemoveFences(_)
RemoveFences(str) ==
    Bind(str, LAMBDA s :
        IF s = <<>> THEN <<>>
        ELSE IF Head(s) = "<fence>" THEN RemoveFences(Tail(s))
        ELSE <<Head(s)>> \o RemoveFences(Tail(s)))

stripJsonFences(s) == Trim(RemoveFences(RemoveJsonFences(s)))

\* extractFirstJsonObject: found = FALSE is the null result
extractFirstJsonObject(str) ==
    Bind(str, LAMBDA s :
        Bind(IndexOf(s, "{"), LAMBDA start :
            Bind(LastIndexOf(s, "}"), LAMBDA end :
                IF start = 0 \/ end = 0 \/ end <= start
                THEN [found |-> FALSE, text |-> <<>>]
                ELSE [found |-> TRUE, text |-> SubSeq(s, start, end)])))

-----------------------------------------------------------------------------
\* Errors.  name "null" is the value null (the initial lastErr); issues is the
\* .issues array of a ZodError and is empty (undefined) for every other error.

NullErr == [name |-> "null", message |-> <<>>, issues |-> <<>>]

SyntaxErr(msg) == [name |-> "SyntaxError", message |-> <<msg>>, issues |-> <<>>]

\* a failure thrown by the provider client (network failure, API error)
ProviderErr(msg) == [name |-> "Error", message |-> <<msg>>, issues |-> <<>>]

\* the template "path: message", the path joined by "." and "(root)" for an empty one
IssueLine(i) ==
    Bind(Join([k \in 1..Len(i.path) |-> <<i.path[k]>>], "."), LAMBDA joined :
        (IF joined = <<>> THEN <<"(root)">> ELSE joined) \o <<": ", i.message>>)

\* ZodError's message is the serialisation of all its issues
ZodErr(list) ==
    Bind(list, LAMBDA issues :
        [name |-> "ZodError",
         message |-> <<"[">> \o Join([k \in 1..Len(issues) |-> IssueLine(issues[k])], ",")
                         \o <<"]">>,
         issues |-> issues])

\* err instanceof Error
IsError(err) == err.name # "null"

\* String(err)
StringOf(err) ==
    IF err.name = "null" THEN <<"null">> ELSE <<err.name, ": ">> \o err.message

\* a slice that is one issue short
SliceIssuesShort(issues) == SubSeq(issues, 1, Min(MaxIssues - 1, Len(issues)))

\* issues.slice(0, 8)
SliceIssues(issues) == SubSeq(issues, 1, Min(MaxIssues, Len(issues)))

zodErrToShortString(e) ==
    Bind(e, LAMBDA err :
        IF Len(err.issues) = 0 THEN StringOf(err)
        ELSE Bind(SliceIssues(err.issues), LAMBDA kept :
                Join([k \in 1..Len(kept) |-> IssueLine(kept[k])], "; ")))

-----------------------------------------------------------------------------
\* JSON values of the model output.  An object is described by the top-level
\* plan keys it lacks and by whether its first step lacks "id".

PlanKeys ==
    <<"version", "language", "vehicle", "concern", "overview", "disclaimers",
      "safetyNotes", "specs", "steps", "firstStepId", "sessionId">>

PlanKeySet == {PlanKeys[k] : k \in 1..Len(PlanKeys)}

NullValue == [kind |-> "null", missing |-> {}, stepNoId |-> FALSE]

ArrayValue == [kind |-> "array", missing |-> {}, stepNoId |-> FALSE]

ObjectValue(missing, stepNoId) ==
    [kind |-> "object", missing |-> missing, stepNoId |-> stepNoId]

\* the text between the braces of an object, as one token
ObjectBodies == {"PLAN", "PLAN without firstStepId", "PLAN without steps.0.id"}

ObjectOf(b) ==
    CASE b = "PLAN" -> ObjectValue({}, FALSE)
      [] b = "PLAN without firstStepId" -> ObjectValue({"firstStepId"}, FALSE)
      [] b = "PLAN without steps.0.id" -> ObjectValue({}, TRUE)

\* JSON.parse: ok = FALSE is the thrown SyntaxError
JsonParse(s) ==
    Bind(Trim(s), LAMBDA t :
        IF t = <<"{", "}">>
        THEN [ok |-> TRUE, value |-> ObjectValue(PlanKeySet, FALSE), error |-> NullErr]
        ELSE IF Len(t) = 3 /\ t[1] = "{" /\ t[3] = "}" /\ t[2] \in ObjectBodies
        THEN [ok |-> TRUE, value |-> ObjectOf(t[2]), error |-> NullErr]
        ELSE IF t = <<"[]">>
        THEN [ok |-> TRUE, value |-> ArrayValue, error |-> NullErr]
        ELSE [ok |-> FALSE, value |-> NullValue,
              error |-> SyntaxErr(IF t = <<>> THEN "Unexpected end of JSON input"
                                  ELSE "Unexpected token")])

\* the issues DiagnosticPlanSchema reports for key k of an object
PlanKeyIssues(v, k) ==
    IF k \in v.missing THEN <<[path |-> <<k>>, message |-> "Required"]>>
    ELSE IF k = "steps" /\ v.stepNoId
    THEN <<[path |-> <<"steps", "0", "id">>, message |-> "Required"]>>
    ELSE <<>>

RECURSIVE PlanIssuesFrom(_, _)
PlanIssuesFrom(v, k) ==
    IF k > Len(PlanKeys) THEN <<>>
    ELSE PlanKeyIssues(v, PlanKeys[k]) \o PlanIssuesFrom(v, k + 1)

\* the issue z.object reports at the root for a value that is no object
RootIssue == [path |-> << >>, message |-> "Expected object, received array"]

\* DiagnosticPlanSchema.safeParse
DiagnosticPlanSchema(parsed) ==
    Bind(parsed, LAMBDA v :
        Bind(IF v.kind # "object" THEN << RootIssue >> ELSE PlanIssuesFrom(v, 1),
             LAMBDA issues :
                IF issues = <<>>
                THEN [success |-> TRUE, data |-> v, error |-> NullErr]
                ELSE [success |-> FALSE, data |-> NullValue, error |-> ZodErr(issues)]))

-----------------------------------------------------------------------------
\* The request body.  A field value is its JavaScript type and its text.

Undef == [t |-> "undefined", v |-> ""]
Str(v) == [t |-> "string", v |-> v]
Arr(v) == [t |-> "array", v |-> v]

InputFields ==
    <<"make", "model", "year", "engine", "dtcs", "symptom", "notes", "language",
      "sessionId", "vin", "mileage">>

InputFieldSet == {InputFields[k] : k \in 1..Len(InputFields)}

\* z.string()
RequiredStrings == {"make", "model", "year", "engine", "symptom"}

\* z.string().optional().default("")
OptionalStrings == {"notes", "sessionId", "vin", "mileage"}

\* z.string() accepts x
IsString(x) == x.t = "string"

\* a schema that lets a string pass where an array of strings is required
IsArrayOrString(x) == x.t \in {"array", "string"}

\* z.array(z.string()) accepts x
IsStringArray(x) == x.t = "array"

\* z.enum(["en", "es"]) accepts x
IsLanguage(x) == x.t = "string" /\ x.v \in {"en", "es"}

\* the issues DiagnosticInputSchema reports for field f with value x
InputFieldIssues(f, x) ==
    LET issue(m) == <<[path |-> <<f>>, message |-> m]>>
    IN CASE f \in RequiredStrings ->
              IF x.t = "undefined" THEN issue("Required")
              ELSE IF ~IsString(x) THEN issue("Expected string")
              ELSE <<>>
         [] f = "dtcs" ->
              IF x.t = "undefined" THEN issue("Required")
              ELSE IF ~IsStringArray(x) THEN issue("Expected array")
              ELSE <<>>
         [] f \in OptionalStrings ->
              IF x.t = "undefined" \/ IsString(x) THEN <<>> ELSE issue("Expected string")
         [] f = "language" ->
              IF x.t = "undefined" \/ IsLanguage(x) THEN <<>>
              ELSE issue("Invalid enum value")

RECURSIVE InputIssuesFrom(_, _)
InputIssuesFrom(b, k) ==
    IF k > Len(InputFields) THEN <<>>
    ELSE InputFieldIssues(InputFields[k], b[InputFields[k]]) \o InputIssuesFrom(b, k + 1)

\* the .default(...) of a field
InputDefault(f, x) ==
    IF x.t # "undefined" THEN x
    ELSE IF f = "language" THEN Str("en")
    ELSE IF f \in OptionalStrings THEN Str("")
    ELSE x

\* DiagnosticInputSchema.parse: success = FALSE is the thrown ZodError
DiagnosticInputSchema(json) ==
    Bind(json, LAMBDA b :
        Bind(InputIssuesFrom(b, 1), LAMBDA issues :
            IF issues = <<>>
            THEN [success |-> TRUE,
                  data |-> [f \in InputFieldSet |-> InputDefault(f, b[f])],
                  error |-> NullErr]
            ELSE [success |-> FALSE, data |-> b, error |-> ZodErr(issues)]))

\* const lang
Lang(input) == IF input["language"].v = "es" THEN "es" ELSE "en"

\* const prompt: the fixed instructions, then JSON.stringify of the case input
BuildPrompt(input) ==
    <<"You are generating a structured automotive diagnostic plan. [...] Here is the case input:",
      input["make"].v, input["model"].v, input["year"].v, input["engine"].v,
      input["dtcs"].v, input["symptom"].v, input["notes"].v, Lang(input),
      input["sessionId"].v, input["vin"].v, input["mileage"].v>>

RepairHeader == "Your previous JSON failed validation with these issues:"

RepairFooter ==
    "Return ONLY corrected JSON that satisfies the structure exactly. Do not omit required keys."

\* the input argument of openai.responses.create
CallInput(a, p, err) ==
    IF a = 1 THEN p
    ELSE p \o <<RepairHeader>> \o zodErrToShortString(err) \o <<RepairFooter>>

\* a loop that runs once more than it should
LoopContinuesOnceMore(a) == a <= MaxAttempts + 1

\* the loop condition attempt <= 2
LoopContinues(a) == a <= MaxAttempts

\* (response as any).output_text ?? ""
OutputText(reply) == IF reply.kind = "undefined" THEN <<>> ELSE reply.output_text

\* a loop body that returns whatever parses, without validating it
AttemptResultUnvalidated(raw) ==
    Bind(stripJsonFences(raw), LAMBDA cleaned :
        Bind(extractFirstJsonObject(cleaned), LAMBDA ext :
            Bind(IF ext.found THEN ext.text ELSE cleaned, LAMBDA jsonBlock :
                Bind(JsonParse(jsonBlock), LAMBDA parsed :
                    IF ~parsed.ok
                    THEN [success |-> FALSE, data |-> NullValue, error |-> parsed.error]
                    ELSE [success |-> TRUE, data |-> parsed.value, error |-> NullErr]))))

\* one pass of the loop body after the call: strip, extract, parse, validate
AttemptResult(raw) ==
    Bind(stripJsonFences(raw), LAMBDA cleaned :
        Bind(extractFirstJsonObject(cleaned), LAMBDA ext :
            Bind(IF ext.found THEN ext.text ELSE cleaned, LAMBDA jsonBlock :
                Bind(JsonParse(jsonBlock), LAMBDA parsed :
                    IF ~parsed.ok
                    THEN [success |-> FALSE, data |-> NullValue, error |-> parsed.error]
                    ELSE DiagnosticPlanSchema(parsed.value)))))

-----------------------------------------------------------------------------
\* Responses.  keys is the set of keys of the JSON body.

MissingKeyResponse ==
    [status |-> 500, keys |-> {"ok", "error"}, ok |-> FALSE,
     error |-> "Missing OPENAI_API_KEY in .env.local",
     detail |-> <<>>, raw |-> <<>>, plan |-> NullValue]

SuccessResponse(data) ==
    [status |-> 200, keys |-> {"ok", "plan"}, ok |-> TRUE, error |-> "",
     detail |-> <<>>, raw |-> <<>>, plan |-> data]

FailedResponse(err, raw) ==
    [status |-> 500, keys |-> {"ok", "error", "detail", "raw"}, ok |-> FALSE,
     error |-> "Model did not return valid JSON matching schema",
     detail |-> zodErrToShortString(err), raw |-> raw, plan |-> NullValue]

\* a catch block that answers 500
ErrorResponseAs500(err) ==
    [status |-> 500, keys |-> {"ok", "error", "detail"}, ok |-> FALSE,
     error |-> "Diagnose failed",
     detail |-> IF IsError(err) THEN err.message ELSE StringOf(err),
     raw |-> <<>>, plan |-> NullValue]

\* the catch block
ErrorResponse(err) ==
    [status |-> 400, keys |-> {"ok", "error", "detail"}, ok |-> FALSE,
     error |-> "Diagnose failed",
     detail |-> IF IsError(err) THEN err.message ELSE StringOf(err),
     raw |-> <<>>, plan |-> NullValue]

-----------------------------------------------------------------------------
\* Inputs: the request bodies and the provider outcomes the model draws from.
\* Request 1 draws from the full sets, the requests running beside it from
\* smaller ones.

BaseFields ==
    [f \in InputFieldSet |->
        CASE f = "make" -> Str("Honda")
          [] f = "model" -> Str("Civic")
          [] f = "year" -> Str("2015")
          [] f = "engine" -> Str("1.8L")
          [] f = "dtcs" -> Arr("[P0420]")
          [] f = "symptom" -> Str("Check engine light on")
          [] OTHER -> Undef]

\* req.json() resolved with a JSON object
JsonBody(fields) == [json |-> TRUE, f |-> fields]

\* req.json() rejected: the body is no JSON
NotJsonBody == [json |-> FALSE, f |-> BaseFields]

\* the body before req.json() has read it
UnreadBody == [json |-> FALSE, f |-> [f \in InputFieldSet |-> Undef]]

MinimalBody == JsonBody(BaseFields)

SpanishBody ==
    JsonBody([BaseFields EXCEPT !["make"] = Str("Seat"), !["language"] = Str("es"),
                                !["sessionId"] = Str("s-42"), !["notes"] = Str("cold start")])

OtherBody ==
    JsonBody([BaseFields EXCEPT !["make"] = Str("BMW"), !["sessionId"] = Str("s-7")])

DtcsStringBody == JsonBody([BaseFields EXCEPT !["dtcs"] = Str("P0420")])

NoMakeBody == JsonBody([BaseFields EXCEPT !["make"] = Undef])

BadLanguageBody == JsonBody([BaseFields EXCEPT !["language"] = Str("fr")])

Bodies(r) ==
    IF r = 1
    THEN {MinimalBody, SpanishBody, DtcsStringBody, NoMakeBody, BadLanguageBody, NotJsonBody}
    ELSE {OtherBody, DtcsStringBody}

TextReply(t) == [kind |-> "text", output_text |-> t, error |-> NullErr]

UndefinedReply == [kind |-> "undefined", output_text |-> <<"undefined">>, error |-> NullErr]

ThrowReply(msg) == [kind |-> "throw", output_text |-> <<>>, error |-> ProviderErr(msg)]

BarePlanText == <<"{", "PLAN", "}">>

FencedPlanText ==
    <<"Here is the plan:", "\n", "<fence>json", "\n", "{", "PLAN", "}", "\n", "<fence>", "\n">>

ProseText == <<"Sorry, I cannot help with that.">>

NoFirstStepIdText == <<"{", "PLAN without firstStepId", "}">>

NoStepIdText == <<"<fence>JSON", " ", "{", "PLAN without steps.0.id", "}", "<fence>">>

EmptyObjectText == <<"{", "}">>

ArrayText == <<"[]">>

Outcomes(r) ==
    IF r = 1
    THEN {TextReply(BarePlanText), TextReply(FencedPlanText), TextReply(ProseText),
          TextReply(NoFirstStepIdText), TextReply(NoStepIdText), TextReply(EmptyObjectText),
          TextReply(ArrayText), UndefinedReply, ThrowReply("fetch failed")}
    ELSE {TextReply(BarePlanText), TextReply(NoFirstStepIdText), ThrowReply("Connection error.")}

-----------------------------------------------------------------------------
\* The handler POST.  An action is a piece of the handler between two awaits.
\* pc: "Idle" (not yet invoked), "ReadBody" (awaiting req.json()),
\* "Validated" (input valid, call 1 in flight), "Generated" (the text of call
\* attempt[r] received), "Retrying" (call 2 in flight), and the ends
\* "NoCredential", "Error" (the catch block), "Success", "Failed".

Terminal == {"NoCredential", "Error", "Success", "Failed"}

\* rawText and lastErr declared at module level: one pair for all invocations
SharedSlot(r) == 1

\* where the let variables rawText and lastErr of invocation r live: they are
\* declared inside POST, one pair for each invocation
Slot(r) == r

\* a handler without the credential check
NoCredentialCheck(key) == TRUE

\* !process.env.OPENAI_API_KEY
HasCredential(key) == key

Init ==
    /\ apiKey \in BOOLEAN
    /\ pc = [r \in Requests |-> "Idle"]
    /\ body = [r \in Requests |-> UnreadBody]
    /\ prompt = [r \in Requests |-> <<>>]
    /\ attempt = [r \in Requests |-> 0]
    /\ rawText = [r \in Requests |-> <<>>]
    /\ lastErr = [r \in Requests |-> NullErr]
    /\ calls = [r \in Requests |-> <<>>]
    /\ replies = [r \in Requests |-> <<>>]
    /\ responses = [r \in Requests |-> <<>>]

\* return NextResponse.json(...)
Respond(r, resp, end) ==
    /\ responses' = [responses EXCEPT ![r] = Append(@, resp)]
    /\ pc' = [pc EXCEPT ![r] = end]

\* the credential is missing: 500 at once
RejectMissingCredential(r) ==
    /\ pc[r] = "Idle"
    /\ ~HasCredential(apiKey)
    /\ Respond(r, MissingKeyResponse, "NoCredential")
    /\ UNCHANGED <<apiKey, body, prompt, attempt, rawText, lastErr, calls, replies>>

\* the credential is there: await req.json()
StartReadBody(r) ==
    /\ pc[r] = "Idle"
    /\ HasCredential(apiKey)
    /\ pc' = [pc EXCEPT ![r] = "ReadBody"]
    /\ UNCHANGED <<apiKey, body, prompt, attempt, rawText, lastErr, calls, replies, responses>>

\* req.json() rejects: the catch block
BodyNotJson(r) ==
    /\ pc[r] = "ReadBody"
    /\ \E b \in Bodies(r) :
        /\ ~b.json
        /\ body' = [body EXCEPT ![r] = b]
        /\ Respond(r, ErrorResponse(SyntaxErr("Unexpected token")), "Error")
    /\ UNCHANGED <<apiKey, prompt, attempt, rawText, lastErr, calls, replies>>

\* DiagnosticInputSchema.parse throws: the catch block
InputInvalid(r) ==
    /\ pc[r] = "ReadBody"
    /\ \E b \in Bodies(r) :
        /\ b.json
        /\ ~DiagnosticInputSchema(b.f).success
        /\ body' = [body EXCEPT ![r] = b]
        /\ Respond(r, ErrorResponse(DiagnosticInputSchema(b.f).error), "Error")
    /\ UNCHANGED <<apiKey, prompt, attempt, rawText, lastErr, calls, replies>>

\* the input is valid: build the prompt, enter the loop, issue call 1
InputValid(r) ==
    /\ pc[r] = "ReadBody"
    /\ \E b \in Bodies(r) :
        /\ b.json
        /\ DiagnosticInputSchema(b.f).success
        /\ LoopContinues(1)
        /\ body' = [body EXCEPT ![r] = b]
        /\ LET p == BuildPrompt(DiagnosticInputSchema(b.f).data)
           IN /\ prompt' = [prompt EXCEPT ![r] = p]
              /\ calls' = [calls EXCEPT ![r] = Append(@, CallInput(1, p, NullErr))]
    /\ attempt' = [attempt EXCEPT ![r] = 1]
    /\ rawText' = [rawText EXCEPT ![Slot(r)] = <<>>]
    /\ lastErr' = [lastErr EXCEPT ![Slot(r)] = NullErr]
    /\ pc' = [pc EXCEPT ![r] = "Validated"]
    /\ UNCHANGED <<apiKey, replies, responses>>

\* a handler that keeps the text of the first attempt only
StoreRawTextOnce(r, o) ==
    IF attempt[r] = 1 THEN [rawText EXCEPT ![Slot(r)] = OutputText(o)] ELSE rawText

\* the assignment to rawText
StoreRawText(r, o) == [rawText EXCEPT ![Slot(r)] = OutputText(o)]

\* the call in flight resolves: rawText = output_text ?? ""
ProviderReturns(r) ==
    /\ pc[r] \in {"Validated", "Retrying"}
    /\ \E o \in Outcomes(r) :
        /\ o.kind # "throw"
        /\ replies' = [replies EXCEPT ![r] = Append(@, o)]
        /\ rawText' = StoreRawText(r, o)
    /\ pc' = [pc EXCEPT ![r] = "Generated"]
    /\ UNCHANGED <<apiKey, body, prompt, attempt, lastErr, calls, responses>>

\* a handler whose provider call is outside the try block: the rejection ends
\* the invocation without a response
ProviderThrowsUncaught(r) ==
    /\ pc[r] \in {"Validated", "Retrying"}
    /\ \E o \in Outcomes(r) :
        /\ o.kind = "throw"
        /\ replies' = [replies EXCEPT ![r] = Append(@, o)]
    /\ pc' = [pc EXCEPT ![r] = "Error"]
    /\ UNCHANGED <<apiKey, body, prompt, attempt, rawText, lastErr, calls, responses>>

\* the call in flight rejects: the catch block
ProviderThrows(r) ==
    /\ pc[r] \in {"Validated", "Retrying"}
    /\ \E o \in Outcomes(r) :
        /\ o.kind = "throw"
        /\ replies' = [replies EXCEPT ![r] = Append(@, o)]
        /\ Respond(r, ErrorResponse(o.error), "Error")
    /\ UNCHANGED <<apiKey, body, prompt, attempt, rawText, lastErr, calls>>

\* the text parses and validates: return the plan
ReturnPlan(r) ==
    /\ pc[r] = "Generated"
    /\ AttemptResult(rawText[Slot(r)]).success
    /\ Respond(r, SuccessResponse(AttemptResult(rawText[Slot(r)]).data), "Success")
    /\ UNCHANGED <<apiKey, body, prompt, attempt, rawText, lastErr, calls, replies>>

\* a loop without the return on success: the repair call is issued whatever
\* the validation said
RetryAlways(r) ==
    /\ pc[r] = "Generated"
    /\ LoopContinues(attempt[r] + 1)
    /\ LET err == AttemptResult(rawText[Slot(r)]).error
       IN /\ lastErr' = [lastErr EXCEPT ![Slot(r)] = err]
          /\ calls' = [calls EXCEPT ![r] = Append(@, CallInput(attempt[r] + 1, prompt[r], err))]
    /\ attempt' = [attempt EXCEPT ![r] = @ + 1]
    /\ pc' = [pc EXCEPT ![r] = "Retrying"]
    /\ UNCHANGED <<apiKey, body, prompt, rawText, replies, responses>>

\* the text fails to parse or validate and the loop goes on: issue the repair call
Retry(r) ==
    /\ pc[r] = "Generated"
    /\ ~AttemptResult(rawText[Slot(r)]).success
    /\ LoopContinues(attempt[r] + 1)
    /\ LET err == AttemptResult(rawText[Slot(r)]).error
       IN /\ lastErr' = [lastErr EXCEPT ![Slot(r)] = err]
          /\ calls' = [calls EXCEPT ![r] = Append(@, CallInput(attempt[r] + 1, prompt[r], err))]
    /\ attempt' = [attempt EXCEPT ![r] = @ + 1]
    /\ pc' = [pc EXCEPT ![r] = "Retrying"]
    /\ UNCHANGED <<apiKey, body, prompt, rawText, replies, responses>>

\* the text fails to parse or validate and the loop ends: the 500 after the loop
GiveUp(r) ==
    /\ pc[r] = "Generated"
    /\ ~AttemptResult(rawText[Slot(r)]).success
    /\ ~LoopContinues(attempt[r] + 1)
    /\ LET err == AttemptResult(rawText[Slot(r)]).error
       IN /\ lastErr' = [lastErr EXCEPT ![Slot(r)] = err]
          /\ Respond(r, FailedResponse(err, rawText[Slot(r)]), "Failed")
    /\ attempt' = [attempt EXCEPT ![r] = @ + 1]
    /\ UNCHANGED <<apiKey, body, prompt, rawText, calls, replies>>

Next ==
    \E r \in Requests :
        \/ RejectMissingCredential(r)
        \/ StartReadBody(r)
        \/ BodyNotJson(r)
        \/ InputInvalid(r)
        \/ InputValid(r)
        \/ ProviderReturns(r)
        \/ ProviderThrows(r)
        \/ ReturnPlan(r)
        \/ Retry(r)
        \/ GiveUp(r)

Spec == Init /\ [][Next]_vars

\* every call completes or fails, and the host runs a handler that can go on
FairSpec == Spec /\ WF_vars(Next)

-----------------------------------------------------------------------------
\* Properties.

\* the text of reply k of request r as the handler reads it
ReplyText(r, k) == IF replies[r][k].kind = "text" THEN replies[r][k].output_text ELSE <<>>

\* reply k of request r is a text that fails to parse or to validate
ReplyFails(r, k) ==
    /\ replies[r][k].kind # "throw"
    /\ ~AttemptResult(ReplyText(r, k)).success

\* a plan value that satisfies DiagnosticPlanSchema
IsValidPlan(v) == v.kind = "object" /\ v.missing = {} /\ ~v.stepNoId

\* C1: a request issues at most two provider calls, the initial one and at most
\* one repair call, whatever the outcomes; no call is issued before the
\* outcome of the one before it
AtMostTwoCalls ==
    \A r \in Requests :
        /\ Len(calls[r]) <= 2
        /\ Len(replies[r]) <= Len(calls[r])
        /\ Len(calls[r]) <= Len(replies[r]) + 1

TwoCallsMade == \E r \in Requests : pc[r] = "Failed" /\ Len(calls[r]) = 2

\* C2: when both attempts fail to parse or validate, the response is the 500
\* with ok false, the fixed error tag, a detail of the second failure and raw
\* equal to the text of the second attempt
BothFailReturnsSecondRaw ==
    \A r \in Requests :
        (/\ pc[r] \in Terminal
         /\ Len(replies[r]) = 2
         /\ ReplyFails(r, 1)
         /\ ReplyFails(r, 2))
        => /\ pc[r] = "Failed"
           /\ Len(responses[r]) = 1
           /\ responses[r][1].status = 500
           /\ responses[r][1].ok = FALSE
           /\ responses[r][1].error = "Model did not return valid JSON matching schema"
           /\ responses[r][1].keys = {"ok", "error", "detail", "raw"}
           /\ responses[r][1].raw = ReplyText(r, 2)
           /\ responses[r][1].detail # <<>>
           /\ responses[r][1].detail
                = zodErrToShortString(AttemptResult(ReplyText(r, 2)).error)

BothFailedDifferently ==
    \E r \in Requests :
        /\ pc[r] = "Failed"
        /\ ReplyFails(r, 1)
        /\ ReplyFails(r, 2)
        /\ ReplyText(r, 1) # ReplyText(r, 2)

\* C3: when the first attempt fails schema validation, the input of the second
\* call is the original prompt, then the header, then the lines "path: message"
\* of the first 8 issues of that failure and of no other, then the corrective
\* instruction
RepairPromptCarriesIssues ==
    \A r \in Requests :
        (/\ Len(calls[r]) = 2
         /\ AttemptResult(ReplyText(r, 1)).error.name = "ZodError")
        => LET issues == AttemptResult(ReplyText(r, 1)).error.issues
               input == calls[r][2]
               n == Len(prompt[r])
               middle == SubSeq(input, n + 2, Len(input) - 1)
           IN /\ calls[r][1] = prompt[r]
              /\ Len(input) >= n + 3
              /\ SubSeq(input, 1, n) = prompt[r]
              /\ input[n + 1] = RepairHeader
              /\ input[Len(input)] = RepairFooter
              /\ \A k \in 1..Len(issues) :
                    IsInfix(IssueLine(issues[k]), middle) <=> k <= 8

RepairAfterManyIssues ==
    \E r \in Requests :
        /\ Len(calls[r]) = 2
        /\ AttemptResult(ReplyText(r, 1)).error.name = "ZodError"
        /\ Len(AttemptResult(ReplyText(r, 1)).error.issues) > 8

\* C4: with the credential unset, a request makes no provider call and, once
\* handled, has answered 500 with ok false, without reading its body
MissingCredentialNoCall ==
    \A r \in Requests :
        ~apiKey
        => /\ calls[r] = <<>>
           /\ replies[r] = <<>>
           /\ pc[r] \in {"Idle", "NoCredential"}
           /\ pc[r] = "NoCredential"
                => /\ Len(responses[r]) = 1
                   /\ responses[r][1].status = 500
                   /\ responses[r][1].ok = FALSE

MissingCredentialAnswered == \E r \in Requests : ~apiKey /\ pc[r] = "NoCredential"

\* body b lacks a required field or has a field of the wrong type
FailsInputSchema(b) ==
    \/ \E f \in RequiredStrings : b[f].t # "string"
    \/ b["dtcs"].t # "array"
    \/ \E f \in OptionalStrings : b[f].t \notin {"undefined", "string"}
    \/ b["language"].t \notin {"undefined", "string"}
    \/ (b["language"].t = "string" /\ b["language"].v \notin {"en", "es"})

\* C5: with the credential present, a body that fails the input schema is
\* answered 400 with ok false, no provider call is made, and the request ends
InvalidInputNoCall ==
    \A r \in Requests :
        (/\ apiKey
         /\ pc[r] \notin {"Idle", "ReadBody"}
         /\ body[r].json
         /\ FailsInputSchema(body[r].f))
        => /\ pc[r] = "Error"
           /\ calls[r] = <<>>
           /\ replies[r] = <<>>
           /\ Len(responses[r]) = 1
           /\ responses[r][1].status = 400
           /\ responses[r][1].ok = FALSE

DtcsStringRejected ==
    \E r \in Requests :
        /\ pc[r] = "Error"
        /\ body[r].json
        /\ body[r].f["dtcs"].t = "string"

\* C6: a response with ok true carries a plan that satisfies the plan schema and
\* is the value parsed from the last reply; a response with ok false carries no
\* plan
AllOrNothing ==
    \A r \in Requests :
        \A k \in 1..Len(responses[r]) :
            LET x == responses[r][k]
            IN IF x.ok
               THEN /\ "plan" \in x.keys
                    /\ IsValidPlan(x.plan)
                    /\ pc[r] = "Success"
                    /\ replies[r] # <<>>
                    /\ replies[r][Len(replies[r])].kind # "throw"
                    /\ x.status = 200
               ELSE /\ "plan" \notin x.keys
                    /\ x.plan = NullValue
                    /\ x.status \in {400, 500}

SuccessAfterInvalidObject ==
    \E r \in Requests :
        /\ pc[r] = "Success"
        /\ Len(replies[r]) = 2
        /\ AttemptResult(ReplyText(r, 1)).error.name = "ZodError"

\* one step of request r along the state machine of a request; afterRetrying
\* is where the request may go while the repair call is in flight
MachineStep(r, afterRetrying) ==
    /\ pc'[r] # pc[r] =>
        CASE pc[r] = "Idle" ->
                /\ pc'[r] \in {"ReadBody", "NoCredential"}
                /\ calls'[r] = <<>>
          [] pc[r] = "ReadBody" ->
                /\ pc'[r] \in {"Validated", "Error"}
                /\ pc'[r] = "Validated" <=> Len(calls'[r]) = 1
          [] pc[r] = "Validated" ->
                /\ pc'[r] \in {"Generated", "Error"}
                /\ Len(replies'[r]) = 1
                /\ calls'[r] = calls[r]
          [] pc[r] = "Generated" /\ Len(replies[r]) = 1 ->
                IF AttemptResult(ReplyText(r, 1)).success
                THEN pc'[r] = "Success" /\ calls'[r] = calls[r] /\ Len(calls[r]) = 1
                ELSE pc'[r] = "Retrying" /\ Len(calls[r]) = 1 /\ Len(calls'[r]) = 2
          [] pc[r] = "Retrying" ->
                /\ pc'[r] \in afterRetrying
                /\ Len(replies[r]) = 1
                /\ Len(replies'[r]) = 2
                /\ calls'[r] = calls[r]
          [] pc[r] = "Generated" /\ Len(replies[r]) = 2 ->
                /\ pc'[r] = (IF AttemptResult(ReplyText(r, 2)).success
                             THEN "Success" ELSE "Failed")
                /\ calls'[r] = calls[r]
          [] OTHER -> FALSE
    /\ calls'[r] # calls[r] =>
        /\ pc[r] \in {"ReadBody", "Generated"}
        /\ pc'[r] \in {"Validated", "Retrying"}
        /\ Len(replies[r]) = Len(calls[r])

\* C7, as stated: the attempts of a request are sequential, the second call is
\* issued only after the first text was validated and failed, a valid first
\* text ends the request in Success with one call, and after the first text the
\* request ends only in Success, or through Retrying and the second text in
\* Success or Failed
StateMachineAsStated == [][\A r \in Requests : MachineStep(r, {"Generated"})]_vars

\* C7, amended: the same, and while the repair call is in flight the request
\* may also end in the 400 of the catch block, when that call throws
StateMachineWithError == [][\A r \in Requests : MachineStep(r, {"Generated", "Error"})]_vars

RepairCallThrew ==
    \E r \in Requests :
        /\ pc[r] = "Error"
        /\ Len(calls[r]) = 2
        /\ ReplyFails(r, 1)

\* C8: a provider call that throws, the first or the second, ends the request
\* with the 400 of the catch block, ok false and the error's message as detail,
\* and no call follows it; every request that ends in the catch block is
\* answered 400 with ok false and a detail
ThrowEndsWith400 ==
    \A r \in Requests :
        /\ \A k \in 1..Len(replies[r]) :
              replies[r][k].kind = "throw"
              => /\ k = Len(replies[r])
                 /\ Len(calls[r]) = k
                 /\ pc[r] = "Error"
                 /\ Len(responses[r]) = 1
                 /\ responses[r][1].status = 400
                 /\ responses[r][1].ok = FALSE
                 /\ responses[r][1].error = "Diagnose failed"
                 /\ responses[r][1].detail = replies[r][k].error.message
        /\ pc[r] = "Error"
              => /\ Len(responses[r]) = 1
                 /\ responses[r][1].status = 400
                 /\ responses[r][1].ok = FALSE
                 /\ responses[r][1].detail # <<>>

SecondCallThrew ==
    \E r \in Requests : Len(replies[r]) = 2 /\ replies[r][2].kind = "throw"

\* the replies of request r that the handler has validated so far
Validated(r) ==
    IF pc[r] = "Generated" THEN Len(replies[r]) - 1
    ELSE Cardinality({k \in 1..Len(replies[r]) : replies[r][k].kind # "throw"})

\* the validated replies of request r that failed
Failures(r) == {k \in 1..Validated(r) : ReplyFails(r, k)}

\* what request r answers, from its own body and its own replies
OwnResponse(r) ==
    CASE pc[r] = "NoCredential" -> MissingKeyResponse
      [] pc[r] = "Error" /\ ~body[r].json -> ErrorResponse(SyntaxErr("Unexpected token"))
      [] pc[r] = "Error" /\ body[r].json /\ replies[r] = <<>> ->
            ErrorResponse(DiagnosticInputSchema(body[r].f).error)
      [] pc[r] = "Error" /\ body[r].json /\ replies[r] # <<>> ->
            ErrorResponse(replies[r][Len(replies[r])].error)
      [] pc[r] = "Success" ->
            SuccessResponse(AttemptResult(ReplyText(r, Len(replies[r]))).data)
      [] pc[r] = "Failed" ->
            FailedResponse(AttemptResult(ReplyText(r, Len(replies[r]))).error,
                           ReplyText(r, Len(replies[r])))

\* C9: under every interleaving of the requests, the attempt counter, the last
\* error, the raw text, the repair prompt and the response of a request are
\* those its own body and its own provider replies determine
RequestsIndependent ==
    \A r \in Requests :
        /\ calls[r] = <<>> =>
              /\ prompt[r] = <<>>
              /\ attempt[r] = 0
              /\ rawText[r] = <<>>
              /\ lastErr[r] = NullErr
              /\ replies[r] = <<>>
        /\ calls[r] # <<>> =>
              /\ prompt[r] = BuildPrompt(DiagnosticInputSchema(body[r].f).data)
              /\ calls[r][1] = prompt[r]
              /\ attempt[r] = 1 + Cardinality(Failures(r))
              /\ rawText[r] =
                    (IF \E k \in 1..Len(replies[r]) : replies[r][k].kind # "throw"
                     THEN ReplyText(r, CHOOSE k \in 1..Len(replies[r]) :
                                          /\ replies[r][k].kind # "throw"
                                          /\ \A j \in (k + 1)..Len(replies[r]) :
                                                replies[r][j].kind = "throw")
                     ELSE <<>>)
              /\ lastErr[r] =
                    (IF Failures(r) = {} THEN NullErr
                     ELSE AttemptResult(ReplyText(r, CHOOSE k \in Failures(r) :
                                          \A j \in Failures(r) : j <= k)).error)
              /\ Len(calls[r]) = 2 =>
                    calls[r][2] = CallInput(2, prompt[r], AttemptResult(ReplyText(r, 1)).error)
        /\ responses[r] = IF pc[r] \in Terminal THEN <<OwnResponse(r)>> ELSE <<>>

TwoRequestsInFlight ==
    \E r, q \in Requests :
        /\ r # q
        /\ pc[r] = "Retrying"
        /\ pc[q] = "Generated"
        /\ attempt[q] = 2
        /\ lastErr[r] # lastErr[q]
        /\ rawText[r] # rawText[q]

\* a request has answered at most once, has answered exactly when it has ended,
\* and its answer is one of the four kinds
OneResponseEach ==
    \A r \in Requests :
        /\ Len(responses[r]) <= 1
        /\ pc[r] \in Terminal <=> Len(responses[r]) = 1
        /\ Len(responses[r]) = 1 =>
              LET x == responses[r][1]
              IN \/ pc[r] = "NoCredential" /\ x.status = 500 /\ ~x.ok
                 \/ pc[r] = "Error" /\ x.status = 400 /\ ~x.ok
                 \/ pc[r] = "Success" /\ x.status = 200 /\ x.ok /\ "plan" \in x.keys
                 \/ pc[r] = "Failed" /\ x.status = 500 /\ ~x.ok /\ Len(replies[r]) = 2

AllAnswered == \A r \in Requests : pc[r] \in Terminal /\ Len(responses[r]) = 1

\* C10: when every provider call completes or fails, every request ends and has
\* produced exactly one response, of one of the four kinds
EveryRequestAnswered == []OneResponseEach /\ <>[]AllAnswered

AllEndedOneFailed == AllAnswered /\ \E r \in Requests : pc[r] = "Failed"

====
